---- MODULE Spec2Model ----
(***************************************************************************)
(* Thompson's group F (src/thompsonf/thompsonf.py): the normal form of a   *)
(* signed generator word, the group operations built on it, the forest     *)
(* diagram of an element and its word length.                              *)
(*                                                                         *)
(* An element is a record [subs, exps] of two equally long sequences.      *)
(* Python lists are 0-based; the model keeps the source's 0-based indices  *)
(* and reads a list through At.  A Python string is a sequence of          *)
(* one-character strings.                                                  *)
(***************************************************************************)
EXTENDS Integers, Sequences, FiniteSets, TLC

VARIABLES
  pc,      \* which public operation the driver is in
  self,    \* the element the operations are called on
  nf,      \* the frame of normal_form
  inv,     \* self.inverse()
  prod,    \* self * self.inverse()
  fd,      \* the frame of forest_diagram
  ln,      \* the frame of __len__
  invlen,  \* len(self.inverse())
  elemA, elemB, elemC, \* three elements a client multiplies
  rel,     \* the subscripts <<i, j>> of a defining relation
  left,    \* the left-hand side a client computed
  right    \* the right-hand side a client computed

vars == <<pc, self, nf, inv, prod, fd, ln, invlen, elemA, elemB, elemC, rel, left, right>>

nfVars == <<nf, inv, prod>>

lenVars == <<fd, ln, invlen>>

grpVars == <<elemA, elemB, elemC, rel, left, right>>

\* Bounds of the input words: number of (subscript, exponent) pairs, largest
\* subscript, largest absolute exponent.
MaxLen == 3
MaxSub == 1
MaxExp == 3

\* Bound of the words a client multiplies: number of pairs.
MaxFactorLen == 1

----------------------------------------------------------------------------
\* Python list and integer helpers.

At(s, k) == s[k + 1]

Pop(s, k) == SubSeq(s, 1, k) \o SubSeq(s, k + 2, Len(s))

Rep(x, n) == [k \in 1..n |-> x]

Abs(x) == IF x < 0 THEN -x ELSE x

Contains(s, x) == \E k \in 1..Len(s) : s[k] = x

MaxOf(s) == CHOOSE x \in {s[k] : k \in 1..Len(s)} : \A k \in 1..Len(s) : s[k] <= x

Reverse(s) == [k \in 1..Len(s) |-> s[Len(s) + 1 - k]]

----------------------------------------------------------------------------
\* Elements.

Element(subs, exps) == [subs |-> subs, exps |-> exps]

Identity == Element(<<0>>, <<0>>)

Words ==
  UNION {{Element(s, e) : s \in [1..n -> 0..MaxSub], e \in [1..n -> (-MaxExp)..MaxExp]} :
         n \in 0..MaxLen}

Factors == {w \in Words : Len(w.subs) <= MaxFactorLen}

----------------------------------------------------------------------------
\* normal_form: the frame of one call (its local variables and its position).

Frame(p, elements, signs, elem, curr, new_subs, new_exps, i, m) ==
  [pc |-> p, elements |-> elements, signs |-> signs, elem |-> elem, curr |-> curr,
   new_subs |-> new_subs, new_exps |-> new_exps, i |-> i, m |-> m]

NFStart == Frame("expand", <<>>, <<>>, 0, 0, <<>>, <<>>, 0, 0)

Returned(subs, exps) == Frame("done", <<>>, <<>>, 0, 0, subs, exps, 0, 0)

RECURSIVE ExpandElements(_, _)
ExpandElements(subs, exps) ==
  IF subs = <<>> THEN <<>>
  ELSE Rep(Head(subs), Abs(Head(exps))) \o ExpandElements(Tail(subs), Tail(exps))

RECURSIVE ExpandSigns(_)
ExpandSigns(exps) ==
  IF exps = <<>> THEN <<>>
  ELSE (IF Head(exps) < 0 THEN Rep(-1, Abs(Head(exps))) ELSE Rep(1, Head(exps)))
       \o ExpandSigns(Tail(exps))

ExpandStep(e) ==
  LET elements == ExpandElements(e.subs, e.exps)
      signs == ExpandSigns(e.exps)
  IN IF elements = <<>> THEN Returned(<<0>>, <<0>>)
     ELSE Frame("outer", elements, signs, 0, 0, <<>>, <<>>, 0, 0)

OuterCond(f) == f.elem <= MaxOf(f.elements)

OuterEnterStep(f) == [f EXCEPT !.curr = 0, !.pc = "inner"]

OuterExitStep(f) == [f EXCEPT !.pc = "recombine"]

InnerCond(f) == f.curr <= Len(f.elements) - 1

Case1(f) ==
  /\ f.curr < Len(f.elements) - 1
  /\ At(f.elements, f.curr) = At(f.elements, f.curr + 1)
  /\ At(f.signs, f.curr) = At(f.signs, f.curr + 1) * (-1)

Case2(f) ==
  /\ f.curr > 0
  /\ At(f.elements, f.curr) = f.elem
  /\ At(f.elements, f.curr - 1) > f.elem
  /\ At(f.signs, f.curr) = 1

Case3(f) ==
  /\ f.curr < Len(f.elements) - 1
  /\ At(f.elements, f.curr) = f.elem
  /\ At(f.elements, f.curr + 1) > f.elem
  /\ At(f.signs, f.curr) = -1

Rewind(curr) == IF curr > 0 THEN curr - 1 ELSE curr

CancelStep(f) ==
  LET elements == Pop(Pop(f.elements, f.curr + 1), f.curr)
      signs == Pop(Pop(f.signs, f.curr + 1), f.curr)
  IN IF elements = <<>> THEN Returned(<<0>>, <<0>>)
     ELSE [f EXCEPT !.elements = elements, !.signs = signs, !.curr = Rewind(f.curr)]

LeftCommuteStep(f) ==
  [f EXCEPT !.elements = [f.elements EXCEPT ![f.curr] = At(f.elements, f.curr),
                                            ![f.curr + 1] = At(f.elements, f.curr - 1) + 1],
            !.signs = [f.signs EXCEPT ![f.curr] = At(f.signs, f.curr),
                                      ![f.curr + 1] = At(f.signs, f.curr - 1)],
            !.curr = Rewind(f.curr)]

RightCommuteStep(f) ==
  [f EXCEPT !.elements = [f.elements EXCEPT ![f.curr + 2] = At(f.elements, f.curr),
                                            ![f.curr + 1] = At(f.elements, f.curr + 1) + 1],
            !.signs = [f.signs EXCEPT ![f.curr + 2] = At(f.signs, f.curr),
                                      ![f.curr + 1] = At(f.signs, f.curr + 1)],
            !.curr = Rewind(f.curr)]

AdvanceStep(f) == [f EXCEPT !.curr = f.curr + 1]

\* Mutant of InnerExitStep: the loop over elem forgets "elem += 1".
InnerExitWithoutIncrement(f) == [f EXCEPT !.pc = "outer"]

InnerExitStep(f) == [f EXCEPT !.elem = f.elem + 1, !.pc = "outer"]

RECURSIVE Combine(_, _, _, _)
Combine(elements, signs, new_subs, new_exps) ==
  IF elements = <<>> THEN <<new_subs, new_exps>>
  ELSE IF Head(elements) = new_subs[Len(new_subs)]
       THEN Combine(Tail(elements), Tail(signs), new_subs,
                    [new_exps EXCEPT ![Len(new_exps)] = @ + Head(signs)])
       ELSE Combine(Tail(elements), Tail(signs),
                    Append(new_subs, Head(elements)), Append(new_exps, Head(signs)))

RecombineStep(f) ==
  LET r == Combine(Tail(f.elements), Tail(f.signs), <<Head(f.elements)>>, <<Head(f.signs)>>)
  IN [f EXCEPT !.elements = <<>>, !.signs = <<>>, !.new_subs = r[1], !.new_exps = r[2],
               !.m = MaxOf(r[1]), !.i = 0, !.pc = "caret"]

\* The 0-based positions of i in new_subs, ascending.
Occurrences(new_subs, i) ==
  LET F[k \in 0..Len(new_subs)] ==
        IF k = 0 THEN <<>>
        ELSE IF new_subs[k] = i THEN Append(F[k - 1], k - 1) ELSE F[k - 1]
  IN F[Len(new_subs)]

CaretLoopCond(f) == f.i < f.m + 1

\* Mutant of CaretApplies: the test "i+1 not in new_subs" is left out.
CaretAppliesIgnoringNext(f) == Len(Occurrences(f.new_subs, f.i)) = 2

CaretApplies(f) ==
  /\ Len(Occurrences(f.new_subs, f.i)) = 2
  /\ ~Contains(f.new_subs, f.i + 1)

\* One occurrence of i: drop the pair when its exponent is +-1, else move the
\* exponent one unit towards 0.
AdjustOcc(se, occ) ==
  LET subs == se[1]
      exps == se[2]
  IN IF At(exps, occ) \in {-1, 1} THEN <<Pop(subs, occ), Pop(exps, occ)>>
     ELSE IF At(exps, occ) < -1 THEN <<subs, [exps EXCEPT ![occ + 1] = @ + 1]>>
     ELSE IF At(exps, occ) > 1 THEN <<subs, [exps EXCEPT ![occ + 1] = @ - 1]>>
     ELSE se

CaretCancelStep(f) ==
  LET occ == Occurrences(f.new_subs, f.i)
      lowered == [x \in 1..Len(f.new_subs) |->
                    IF x - 1 >= At(occ, 0) + 1 /\ x - 1 < At(occ, 1)
                    THEN f.new_subs[x] - 1 ELSE f.new_subs[x]]
      r == AdjustOcc(AdjustOcc(<<lowered, f.new_exps>>, At(occ, 1)), At(occ, 0))
  IN [f EXCEPT !.new_subs = r[1], !.new_exps = r[2], !.i = f.i + 1]

CaretSkipStep(f) == [f EXCEPT !.i = f.i + 1]

ReturnStep(f) == Returned(f.new_subs, f.new_exps)

\* The statement the call executes next.
NFNext(f) ==
  CASE f.pc = "outer" -> IF OuterCond(f) THEN OuterEnterStep(f) ELSE OuterExitStep(f)
    [] f.pc = "inner" ->
         IF ~InnerCond(f) THEN InnerExitStep(f)
         ELSE IF Case1(f) THEN CancelStep(f)
         ELSE IF Case2(f) THEN LeftCommuteStep(f)
         ELSE IF Case3(f) THEN RightCommuteStep(f)
         ELSE AdvanceStep(f)
    [] f.pc = "recombine" -> RecombineStep(f)
    [] f.pc = "caret" ->
         IF ~CaretLoopCond(f) THEN ReturnStep(f)
         ELSE IF CaretApplies(f) THEN CaretCancelStep(f)
         ELSE CaretSkipStep(f)

RECURSIVE RunNF(_)
RunNF(f) == IF f.pc = "done" THEN f ELSE RunNF(NFNext(f))

Result(f) == Element(f.new_subs, f.new_exps)

NormalForm(e) == Result(RunNF(ExpandStep(e)))

\* Mutant of Inverse: the exponents are negated but the pairs are not reversed.
InverseWithoutReversal(e) ==
  LET norm == NormalForm(e)
      new_exps == [k \in 1..Len(norm.exps) |-> (-1) * norm.exps[k]]
  IN NormalForm(Element(norm.subs, new_exps))

Inverse(e) ==
  LET norm == NormalForm(e)
      new_exps == [k \in 1..Len(norm.exps) |-> (-1) * Reverse(norm.exps)[k]]
      new_subs == Reverse(norm.subs)
  IN NormalForm(Element(new_subs, new_exps))

Mul(x, y) == NormalForm(Element(x.subs \o y.subs, x.exps \o y.exps))

Eq(x, y) ==
  LET norm1 == NormalForm(x)
      norm2 == NormalForm(y)
  IN norm1.subs = norm2.subs /\ norm1.exps = norm2.exps

----------------------------------------------------------------------------
\* Python string helpers (a string is a sequence of one-character strings).

Min(x, y) == IF x < y THEN x ELSE y

\* s[a:b] for 0 <= a.
Slice(s, a, b) == SubSeq(s, a + 1, Min(b, Len(s)))

\* s[:b], where a negative b counts from the end.
SliceTo(s, b) == IF b < 0 THEN SubSeq(s, 1, Len(s) + b) ELSE SubSeq(s, 1, Min(b, Len(s)))

\* s[a:] for 0 <= a.
SliceFrom(s, a) == SubSeq(s, a + 1, Len(s))

\* s.count(sub): the non-overlapping occurrences of sub in s.
PyCount(s, sub) ==
  LET n == Len(sub)
      C[k \in 1..(Len(s) + 1)] ==
        IF k + n - 1 > Len(s) THEN 0
        ELSE IF SubSeq(s, k, k + n - 1) = sub
             THEN 1 + C[k + n]
             ELSE C[k + 1]
  IN IF n = 0 THEN Len(s) + 1 ELSE C[1]

\* sub in s.
In(sub, s) == \E k \in 1..(Len(s) - Len(sub) + 1) : SubSeq(s, k, k + Len(sub) - 1) = sub

\* s.find(c, start) for a character c: the lowest 0-based index >= start, or -1.
Find(s, c, start) ==
  LET hits == {k \in start..(Len(s) - 1) : At(s, k) = c}
  IN IF hits = {} THEN -1 ELSE CHOOSE k \in hits : \A j \in hits : k <= j

\* " ".join(forest)
RECURSIVE Join(_)
Join(forest) ==
  IF forest = <<>> THEN <<>>
  ELSE IF Len(forest) = 1 THEN forest[1]
  ELSE forest[1] \o <<" ">> \o Join(Tail(forest))

\* s.split(" ")
RECURSIVE SplitFrom(_, _, _)
SplitFrom(s, parts, part) ==
  IF s = <<>> THEN Append(parts, part)
  ELSE IF Head(s) = " " THEN SplitFrom(Tail(s), Append(parts, part), <<>>)
  ELSE SplitFrom(Tail(s), parts, Append(part, Head(s)))

Split(s) == SplitFrom(s, <<>>, <<>>)

\* list.insert(idx, x) for idx >= 0: an index past the end appends.
Insert(s, idx, x) ==
  LET k == Min(idx, Len(s))
  IN SubSeq(s, 1, k) \o <<x>> \o SubSeq(s, k + 1, Len(s))

Leaf == <<".">>

Caret == <<"(", ".", ")", "(", ".", ")">>

----------------------------------------------------------------------------
\* forest_diagram: the frame of one call.  ret is the returned 4-tuple.

\* top_elements and bot_elements of the normal form, both in descending order.
RECURSIVE SplitElements(_, _, _, _)
SplitElements(norm, i, top_elements, bot_elements) ==
  IF i < 0 THEN <<top_elements, bot_elements>>
  ELSE IF At(norm.exps, i) > 0
       THEN SplitElements(norm, i - 1,
                          top_elements \o Rep(At(norm.subs, i), At(norm.exps, i)), bot_elements)
       ELSE SplitElements(norm, i - 1, top_elements,
                          bot_elements \o Rep(At(norm.subs, i), Abs(At(norm.exps, i))))

FDStart(norm) ==
  LET r == SplitElements(norm, Len(norm.subs) - 1, <<>>, <<>>)
  IN [pc |-> "bot", top_elements |-> r[1], bot_elements |-> r[2],
      top_forest |-> <<Leaf>>, top_pointer |-> 0,
      bot_forest |-> <<Leaf>>, bot_pointer |-> 0, ret |-> <<>>]

NoDiagram ==
  [pc |-> "none", top_elements |-> <<>>, bot_elements |-> <<>>,
   top_forest |-> <<>>, top_pointer |-> 0,
   bot_forest |-> <<>>, bot_pointer |-> 0, ret |-> <<>>]

BotLoopCond(d) == d.bot_elements # <<>>

BotZeroStep(d) ==
  [d EXCEPT !.top_forest = Insert(d.top_forest, 0, Leaf),
            !.bot_forest = Insert(d.bot_forest, 0, Leaf),
            !.bot_pointer = d.bot_pointer + 1,
            !.bot_elements = Tail(d.bot_elements)]

\* The index of the elem-th "." of temp_join (the first for elem <= 1), or -1.
RECURSIVE FindNth(_, _, _)
FindNth(temp_join, start, n) ==
  IF start >= 0 /\ n > 1 THEN FindNth(temp_join, Find(temp_join, ".", start + 1), n - 1)
  ELSE start

\* Mutant of BotGraftStep: the bottom caret is grafted but the top forest does
\* not get its new leaf.
BotGraftWithoutTopLeaf(d) ==
  LET elem == Head(d.bot_elements)
      num_leaves == PyCount(Join(d.bot_forest), Leaf)
      top_padded == IF num_leaves < elem
                    THEN d.top_forest \o Rep(Leaf, elem - num_leaves) ELSE d.top_forest
      bot_padded == IF num_leaves < elem
                    THEN d.bot_forest \o Rep(Leaf, elem - num_leaves) ELSE d.bot_forest
      temp_join == Join(bot_padded)
      leaf_to_replace == FindNth(temp_join, Find(temp_join, ".", 0), elem)
      new_forest == SliceTo(temp_join, leaf_to_replace) \o Caret
                    \o SliceFrom(temp_join, leaf_to_replace + 1)
  IN [d EXCEPT !.top_forest = top_padded,
               !.bot_forest = Split(new_forest),
               !.bot_elements = Tail(d.bot_elements)]

BotGraftStep(d) ==
  LET elem == Head(d.bot_elements)
      num_leaves == PyCount(Join(d.bot_forest), Leaf)
      top_padded == IF num_leaves < elem
                    THEN d.top_forest \o Rep(Leaf, elem - num_leaves) ELSE d.top_forest
      bot_padded == IF num_leaves < elem
                    THEN d.bot_forest \o Rep(Leaf, elem - num_leaves) ELSE d.bot_forest
      temp_join == Join(bot_padded)
      leaf_to_replace == FindNth(temp_join, Find(temp_join, ".", 0), elem)
      new_forest == SliceTo(temp_join, leaf_to_replace) \o Caret
                    \o SliceFrom(temp_join, leaf_to_replace + 1)
  IN [d EXCEPT !.top_forest = Insert(top_padded, d.top_pointer + elem, Leaf),
               !.bot_forest = Split(new_forest),
               !.bot_elements = Tail(d.bot_elements)]

BotExitStep(d) == [d EXCEPT !.pc = "top"]

TopLoopCond(d) == d.top_elements # <<>>

TopZeroStep(d) ==
  LET grow == d.top_pointer = Len(d.top_forest) - 1
  IN [d EXCEPT !.bot_forest = IF grow THEN d.bot_forest \o <<Leaf>> ELSE d.bot_forest,
               !.top_forest = IF grow THEN d.top_forest \o <<Leaf>> ELSE d.top_forest,
               !.top_pointer = d.top_pointer + 1,
               !.top_elements = Tail(d.top_elements)]

TopGraftStep(d) ==
  LET elem == Head(d.top_elements)
      short == Len(d.top_forest) < d.top_pointer + elem + 1
      pad == d.top_pointer + elem + 1 - Len(d.top_forest)
      bot_padded == IF short THEN d.bot_forest \o Rep(Leaf, pad) ELSE d.bot_forest
      top_padded == IF short THEN d.top_forest \o Rep(Leaf, pad) ELSE d.top_forest
      right_tree == At(top_padded, d.top_pointer + elem)
      popped1 == Pop(top_padded, d.top_pointer + elem)
      left_tree == At(popped1, d.top_pointer + elem - 1)
      popped2 == Pop(popped1, d.top_pointer + elem - 1)
      new_tree == <<"(">> \o left_tree \o <<")", "(">> \o right_tree \o <<")">>
  IN [d EXCEPT !.bot_forest = bot_padded,
               !.top_forest = Insert(popped2, d.top_pointer + elem - 1, new_tree),
               !.top_elements = Tail(d.top_elements)]

\* Lines 147-159.  ".".count(forest) counts the forest string inside ".", so it
\* is 1 for the one-leaf forest and 0 for any other; when the two counts differ
\* the code adds a list to a string, which raises TypeError.
FinishStep(d) ==
  LET top_forest == Join(d.top_forest)
      bot_forest == Join(d.bot_forest)
      top_count == PyCount(Leaf, top_forest)
      bot_count == PyCount(Leaf, bot_forest)
  IN IF top_count < bot_count \/ bot_count < top_count
     THEN [d EXCEPT !.pc = "raised"]
     ELSE [d EXCEPT !.pc = "done",
                    !.ret = << <<" ">> \o top_forest \o <<" ">>, d.top_pointer,
                               <<" ">> \o bot_forest \o <<" ">>, d.bot_pointer >>]

FDNext(d) ==
  CASE d.pc = "bot" ->
         IF ~BotLoopCond(d) THEN BotExitStep(d)
         ELSE IF Head(d.bot_elements) = 0 THEN BotZeroStep(d)
         ELSE BotGraftStep(d)
    [] d.pc = "top" ->
         IF ~TopLoopCond(d) THEN FinishStep(d)
         ELSE IF Head(d.top_elements) = 0 THEN TopZeroStep(d)
         ELSE TopGraftStep(d)

RECURSIVE RunFD(_)
RunFD(d) == IF d.pc \in {"done", "raised"} THEN d ELSE RunFD(FDNext(d))

ForestDiagram(e) == RunFD(FDStart(NormalForm(e)))

\* The leaves of a forest held as a list of trees.
LeafCount(forest) == PyCount(Join(forest), Leaf)

----------------------------------------------------------------------------
\* __len__: the frame of one call.  value is the returned weight.

space_pair_weights ==
  (<<"L", "L">> :> 2) @@ (<<"L", "N">> :> 1) @@ (<<"L", "R">> :> 1) @@ (<<"L", "I">> :> 1) @@
  (<<"N", "L">> :> 1) @@ (<<"N", "N">> :> 2) @@ (<<"N", "R">> :> 2) @@ (<<"N", "I">> :> 2) @@
  (<<"R", "L">> :> 1) @@ (<<"R", "N">> :> 2) @@ (<<"R", "R">> :> 2) @@ (<<"R", "I">> :> 0) @@
  (<<"I", "L">> :> 1) @@ (<<"I", "N">> :> 2) @@ (<<"I", "R">> :> 0) @@ (<<"I", "I">> :> 0)

LenFrame(p, leaf, top_labels, bot_labels, value) ==
  [pc |-> p, leaf |-> leaf, top_labels |-> top_labels, bot_labels |-> bot_labels,
   value |-> value]

LNStart == LenFrame("entry", 0, <<>>, <<>>, 0)

LenReturned(value) == LenFrame("done", 0, <<>>, <<>>, value)

LenRaised == LenFrame("raised", 0, <<>>, <<>>, 0)

IsSentinel(e) == e.subs = <<0>> /\ e.exps = <<0>>

\* The 0-based positions of the leaves of a forest string.
LeafIndices(forest) == Occurrences(forest, ".")

\* list.count(x)
ListCount(s, x) == Cardinality({k \in 1..Len(s) : s[k] = x})

\* Mutant of TopLabelOf: the last branch, which labels an interior gap "I", is
\* left out.
TopLabelWithoutInterior(top_forest, top_pointer, top_labels, leaf) ==
  LET leaf_indices == LeafIndices(top_forest)
      last_index == IF leaf = 0 THEN 0 ELSE At(leaf_indices, leaf - 1)
      index == At(leaf_indices, leaf)
      next_index == At(leaf_indices, leaf + 1)
      prev_level == PyCount(Slice(top_forest, last_index, index + 1), <<"(">>)
      curr_level == PyCount(Slice(top_forest, index, next_index + 1), <<"(">>)
      gap == Slice(top_forest, index, next_index)
  IN IF In(<<" ">>, gap) /\ ListCount(top_labels, "L") < top_pointer THEN <<"L">>
     ELSE IF curr_level > prev_level \/ In(<<" ", "(">>, gap) THEN <<"N">>
     ELSE IF In(<<" ">>, gap) /\ index >= top_pointer THEN <<"R">>
     ELSE <<>>

\* What one pass of the top labeling loop appends for gap number leaf: a label,
\* or nothing when no branch matches.
TopLabelOf(top_forest, top_pointer, top_labels, leaf) ==
  LET leaf_indices == LeafIndices(top_forest)
      last_index == IF leaf = 0 THEN 0 ELSE At(leaf_indices, leaf - 1)
      index == At(leaf_indices, leaf)
      next_index == At(leaf_indices, leaf + 1)
      prev_level == PyCount(Slice(top_forest, last_index, index + 1), <<"(">>)
      curr_level == PyCount(Slice(top_forest, index, next_index + 1), <<"(">>)
      gap == Slice(top_forest, index, next_index)
  IN IF In(<<" ">>, gap) /\ ListCount(top_labels, "L") < top_pointer THEN <<"L">>
     ELSE IF curr_level > prev_level \/ In(<<" ", "(">>, gap) THEN <<"N">>
     ELSE IF In(<<" ">>, gap) /\ index >= top_pointer THEN <<"R">>
     ELSE IF At(top_forest, index + 1) = ")" THEN <<"I">>
     ELSE <<>>

\* The same for the bottom labeling loop.
BotLabelOf(bot_forest, bot_pointer, bot_labels, leaf) ==
  LET leaf_indices == LeafIndices(bot_forest)
      last_index == IF leaf = 0 THEN 0 ELSE At(leaf_indices, leaf - 1)
      index == At(leaf_indices, leaf)
      next_index == At(leaf_indices, leaf + 1)
      prev_level == PyCount(Slice(bot_forest, last_index, index + 1), <<"(">>)
      curr_level == PyCount(Slice(bot_forest, index, next_index + 1), <<"(">>)
      gap == Slice(bot_forest, index, next_index)
  IN IF In(<<" ">>, gap) /\ ListCount(bot_labels, "L") < bot_pointer THEN <<"L">>
     ELSE IF curr_level > prev_level \/ In(<<" ", "(">>, gap) THEN <<"N">>
     ELSE IF In(<<" ">>, gap) THEN <<"R">>
     ELSE IF At(bot_forest, index + 1) = ")" THEN <<"I">>
     ELSE <<>>

\* forest_diagram returned (or raised) into __len__.
DiagramReturnStep(l, d) ==
  IF d.pc = "raised" THEN LenRaised ELSE [l EXCEPT !.pc = "top", !.leaf = 0]

TopLabelCond(l, d) == l.leaf < Len(LeafIndices(d.ret[1])) - 1

TopLabelStep(l, d) ==
  [l EXCEPT !.top_labels = @ \o TopLabelOf(d.ret[1], d.ret[2], l.top_labels, l.leaf),
            !.leaf = l.leaf + 1]

TopLabelExitStep(l) == [l EXCEPT !.pc = "bot", !.leaf = 0]

BotLabelCond(l, d) == l.leaf < Len(LeafIndices(d.ret[3])) - 1

BotLabelStep(l, d) ==
  [l EXCEPT !.bot_labels = @ \o BotLabelOf(d.ret[3], d.ret[4], l.bot_labels, l.leaf),
            !.leaf = l.leaf + 1]

RECURSIVE SpaceWeights(_, _, _)
SpaceWeights(top_labels, bot_labels, label_index) ==
  IF label_index >= Len(top_labels) THEN 0
  ELSE space_pair_weights[<<At(top_labels, label_index), At(bot_labels, label_index)>>]
       + SpaceWeights(top_labels, bot_labels, label_index + 1)

\* Mutant of CheckStep: the weights of the labeled gaps are not added.
CheckStepCaretsOnly(l, d) ==
  LET num_leaves == Len(LeafIndices(d.ret[3]))
  IN IF Len(l.bot_labels) # num_leaves - 1 \/ Len(l.top_labels) # Len(l.bot_labels)
     THEN LenRaised
     ELSE [l EXCEPT !.pc = "done", !.leaf = 0,
                    !.value = (PyCount(d.ret[1], <<"(">>) + PyCount(d.ret[3], <<"(">>)) \div 2]

\* Lines 372-385: the consistency check, then the weight.
CheckStep(l, d) ==
  LET num_leaves == Len(LeafIndices(d.ret[3]))
  IN IF Len(l.bot_labels) # num_leaves - 1 \/ Len(l.top_labels) # Len(l.bot_labels)
     THEN LenRaised
     ELSE LET carets == (PyCount(d.ret[1], <<"(">>) + PyCount(d.ret[3], <<"(">>)) \div 2
          IN [l EXCEPT !.pc = "done", !.leaf = 0,
                       !.value = carets + SpaceWeights(l.top_labels, l.bot_labels, 0)]

LNNext(l, d) ==
  CASE l.pc = "diagram" -> DiagramReturnStep(l, d)
    [] l.pc = "top" -> IF TopLabelCond(l, d) THEN TopLabelStep(l, d) ELSE TopLabelExitStep(l)
    [] l.pc = "bot" -> IF BotLabelCond(l, d) THEN BotLabelStep(l, d) ELSE CheckStep(l, d)

RECURSIVE RunLN(_, _)
RunLN(l, d) == IF l.pc \in {"done", "raised"} THEN l ELSE RunLN(LNNext(l, d), d)

LenEntryStep(l, e) ==
  IF IsSentinel(e) THEN LenReturned(0) ELSE [l EXCEPT !.pc = "diagram"]

\* len(e): a frame with pc "done" and the weight in value, or with pc "raised".
WordLen(e) ==
  IF IsSentinel(e) THEN LenReturned(0)
  ELSE RunLN(LenEntryStep(LNStart, e), ForestDiagram(e))

----------------------------------------------------------------------------
\* One call of normal_form on an element, statement by statement, followed by
\* e.inverse() and e * e.inverse().

Init ==
  /\ self \in Words
  /\ pc = "normal_form"
  /\ nf = NFStart
  /\ inv = Identity
  /\ prod = Identity
  /\ fd = NoDiagram
  /\ ln = LNStart
  /\ invlen = LNStart
  /\ elemA = Identity /\ elemB = Identity /\ elemC = Identity
  /\ rel = <<0, 0>> /\ left = Identity /\ right = Identity

Expand ==
  /\ pc = "normal_form" /\ nf.pc = "expand"
  /\ nf' = ExpandStep(self)
  /\ UNCHANGED <<pc, self, inv, prod, lenVars, grpVars>>

OuterEnter ==
  /\ pc = "normal_form" /\ nf.pc = "outer" /\ OuterCond(nf)
  /\ nf' = OuterEnterStep(nf)
  /\ UNCHANGED <<pc, self, inv, prod, lenVars, grpVars>>

OuterExit ==
  /\ pc = "normal_form" /\ nf.pc = "outer" /\ ~OuterCond(nf)
  /\ nf' = OuterExitStep(nf)
  /\ UNCHANGED <<pc, self, inv, prod, lenVars, grpVars>>

Cancel ==
  /\ pc = "normal_form" /\ nf.pc = "inner" /\ InnerCond(nf)
  /\ Case1(nf)
  /\ nf' = CancelStep(nf)
  /\ UNCHANGED <<pc, self, inv, prod, lenVars, grpVars>>

LeftCommute ==
  /\ pc = "normal_form" /\ nf.pc = "inner" /\ InnerCond(nf)
  /\ ~Case1(nf) /\ Case2(nf)
  /\ nf' = LeftCommuteStep(nf)
  /\ UNCHANGED <<pc, self, inv, prod, lenVars, grpVars>>

RightCommute ==
  /\ pc = "normal_form" /\ nf.pc = "inner" /\ InnerCond(nf)
  /\ ~Case1(nf) /\ ~Case2(nf) /\ Case3(nf)
  /\ nf' = RightCommuteStep(nf)
  /\ UNCHANGED <<pc, self, inv, prod, lenVars, grpVars>>

Advance ==
  /\ pc = "normal_form" /\ nf.pc = "inner" /\ InnerCond(nf)
  /\ ~Case1(nf) /\ ~Case2(nf) /\ ~Case3(nf)
  /\ nf' = AdvanceStep(nf)
  /\ UNCHANGED <<pc, self, inv, prod, lenVars, grpVars>>

InnerExit ==
  /\ pc = "normal_form" /\ nf.pc = "inner" /\ ~InnerCond(nf)
  /\ nf' = InnerExitStep(nf)
  /\ UNCHANGED <<pc, self, inv, prod, lenVars, grpVars>>

Recombine ==
  /\ pc = "normal_form" /\ nf.pc = "recombine"
  /\ nf' = RecombineStep(nf)
  /\ UNCHANGED <<pc, self, inv, prod, lenVars, grpVars>>

CaretCancel ==
  /\ pc = "normal_form" /\ nf.pc = "caret" /\ CaretLoopCond(nf)
  /\ CaretApplies(nf)
  /\ nf' = CaretCancelStep(nf)
  /\ UNCHANGED <<pc, self, inv, prod, lenVars, grpVars>>

CaretSkip ==
  /\ pc = "normal_form" /\ nf.pc = "caret" /\ CaretLoopCond(nf)
  /\ ~CaretApplies(nf)
  /\ nf' = CaretSkipStep(nf)
  /\ UNCHANGED <<pc, self, inv, prod, lenVars, grpVars>>

Return ==
  /\ pc = "normal_form" /\ nf.pc = "caret" /\ ~CaretLoopCond(nf)
  /\ nf' = ReturnStep(nf)
  /\ UNCHANGED <<pc, self, inv, prod, lenVars, grpVars>>

Invert ==
  /\ pc = "normal_form" /\ nf.pc = "done"
  /\ inv' = Inverse(self)
  /\ pc' = "inverse"
  /\ UNCHANGED <<self, nf, prod, lenVars, grpVars>>

MulInverse ==
  /\ pc = "inverse"
  /\ prod' = Mul(self, inv)
  /\ pc' = "end"
  /\ UNCHANGED <<self, nf, inv, lenVars, grpVars>>

\* The statements of normal_form.
NormalFormStep ==
  \/ Expand \/ OuterEnter \/ OuterExit
  \/ Cancel \/ LeftCommute \/ RightCommute \/ Advance \/ InnerExit
  \/ Recombine \/ CaretCancel \/ CaretSkip \/ Return

Next == NormalFormStep \/ Invert \/ MulInverse

Spec == Init /\ [][Next]_vars

\* The interpreter runs a call that has a next statement: normal_form is
\* sequential code and nothing else is scheduled against it.
FairSpec == Spec /\ WF_vars(NormalFormStep)

----------------------------------------------------------------------------
\* One call of len(e), statement by statement through forest_diagram and the
\* two labeling loops, followed by len(e.inverse()).

InitLen ==
  /\ self \in Words
  /\ pc = "len"
  /\ nf = NFStart
  /\ inv = Identity
  /\ prod = Identity
  /\ fd = NoDiagram
  /\ ln = LNStart
  /\ invlen = LNStart
  /\ elemA = Identity /\ elemB = Identity /\ elemC = Identity
  /\ rel = <<0, 0>> /\ left = Identity /\ right = Identity

LenEntry ==
  /\ pc = "len" /\ ln.pc = "entry"
  /\ ln' = LenEntryStep(ln, self)
  /\ fd' = IF IsSentinel(self) THEN fd ELSE FDStart(NormalForm(self))
  /\ UNCHANGED <<pc, self, nfVars, grpVars, invlen>>

BotZero ==
  /\ ln.pc = "diagram" /\ fd.pc = "bot" /\ BotLoopCond(fd)
  /\ Head(fd.bot_elements) = 0
  /\ fd' = BotZeroStep(fd)
  /\ UNCHANGED <<pc, self, nfVars, grpVars, ln, invlen>>

BotGraft ==
  /\ ln.pc = "diagram" /\ fd.pc = "bot" /\ BotLoopCond(fd)
  /\ Head(fd.bot_elements) # 0
  /\ fd' = BotGraftStep(fd)
  /\ UNCHANGED <<pc, self, nfVars, grpVars, ln, invlen>>

BotExit ==
  /\ ln.pc = "diagram" /\ fd.pc = "bot" /\ ~BotLoopCond(fd)
  /\ fd' = BotExitStep(fd)
  /\ UNCHANGED <<pc, self, nfVars, grpVars, ln, invlen>>

TopZero ==
  /\ ln.pc = "diagram" /\ fd.pc = "top" /\ TopLoopCond(fd)
  /\ Head(fd.top_elements) = 0
  /\ fd' = TopZeroStep(fd)
  /\ UNCHANGED <<pc, self, nfVars, grpVars, ln, invlen>>

TopGraft ==
  /\ ln.pc = "diagram" /\ fd.pc = "top" /\ TopLoopCond(fd)
  /\ Head(fd.top_elements) # 0
  /\ fd' = TopGraftStep(fd)
  /\ UNCHANGED <<pc, self, nfVars, grpVars, ln, invlen>>

Finish ==
  /\ ln.pc = "diagram" /\ fd.pc = "top" /\ ~TopLoopCond(fd)
  /\ fd' = FinishStep(fd)
  /\ UNCHANGED <<pc, self, nfVars, grpVars, ln, invlen>>

DiagramReturn ==
  /\ ln.pc = "diagram" /\ fd.pc \in {"done", "raised"}
  /\ ln' = DiagramReturnStep(ln, fd)
  /\ UNCHANGED <<pc, self, nfVars, grpVars, fd, invlen>>

TopLabel ==
  /\ ln.pc = "top" /\ TopLabelCond(ln, fd)
  /\ ln' = TopLabelStep(ln, fd)
  /\ UNCHANGED <<pc, self, nfVars, grpVars, fd, invlen>>

TopLabelExit ==
  /\ ln.pc = "top" /\ ~TopLabelCond(ln, fd)
  /\ ln' = TopLabelExitStep(ln)
  /\ UNCHANGED <<pc, self, nfVars, grpVars, fd, invlen>>

BotLabel ==
  /\ ln.pc = "bot" /\ BotLabelCond(ln, fd)
  /\ ln' = BotLabelStep(ln, fd)
  /\ UNCHANGED <<pc, self, nfVars, grpVars, fd, invlen>>

Check ==
  /\ ln.pc = "bot" /\ ~BotLabelCond(ln, fd)
  /\ ln' = CheckStep(ln, fd)
  /\ UNCHANGED <<pc, self, nfVars, grpVars, fd, invlen>>

InverseLen ==
  /\ pc = "len" /\ ln.pc \in {"done", "raised"}
  /\ invlen' = WordLen(Inverse(self))
  /\ pc' = "end"
  /\ UNCHANGED <<self, nfVars, grpVars, fd, ln>>

NextLen ==
  \/ LenEntry
  \/ BotZero \/ BotGraft \/ BotExit \/ TopZero \/ TopGraft \/ Finish
  \/ DiagramReturn \/ TopLabel \/ TopLabelExit \/ BotLabel \/ Check
  \/ InverseLen

SpecLen == InitLen /\ [][NextLen]_vars

----------------------------------------------------------------------------
\* A client of the class: it builds elements with the constructor, multiplies
\* them in both groupings, and builds the two sides of a defining relation
\* x_i^-1 x_j x_i = x_{j+1} (i < j) inside a context elemA ... elemC.

InitGroup ==
  /\ elemA \in Factors /\ elemB \in Factors /\ elemC \in Factors
  /\ pc = "client"
  /\ self = Identity
  /\ nf = NFStart
  /\ inv = Identity
  /\ prod = Identity
  /\ fd = NoDiagram
  /\ ln = LNStart
  /\ invlen = LNStart
  /\ rel = <<0, 0>> /\ left = Identity /\ right = Identity

Associate ==
  /\ pc = "client"
  /\ left' = Mul(Mul(elemA, elemB), elemC)
  /\ right' = Mul(elemA, Mul(elemB, elemC))
  /\ pc' = "associated"
  /\ UNCHANGED <<self, nfVars, lenVars, elemA, elemB, elemC, rel>>

Relate ==
  /\ pc = "client"
  /\ \E i \in 0..MaxSub, j \in 1..(MaxSub + 1) :
       /\ i < j
       /\ rel' = <<i, j>>
       /\ left' = NormalForm(Element(elemA.subs \o <<i, j, i>> \o elemC.subs,
                                      elemA.exps \o <<-1, 1, 1>> \o elemC.exps))
       /\ right' = NormalForm(Element(elemA.subs \o <<j + 1>> \o elemC.subs,
                                       elemA.exps \o <<1>> \o elemC.exps))
  /\ pc' = "related"
  /\ UNCHANGED <<self, nfVars, lenVars, elemA, elemB, elemC>>

NextGroup == Associate \/ Relate

SpecGroup == InitGroup /\ [][NextGroup]_vars

----------------------------------------------------------------------------
\* The properties.

\* The shape of a normal form: a prefix of positive exponents on strictly
\* increasing subscripts, then a suffix of negative exponents on strictly
\* decreasing subscripts, and a subscript shared by the prefix and the suffix is
\* followed by its successor somewhere in the word.
WellFormed(e) ==
  LET n == Len(e.subs)
  IN /\ Len(e.exps) = n
     /\ \E k \in 0..n :
          /\ \A p \in 1..k : e.exps[p] > 0
          /\ \A p \in (k + 1)..n : e.exps[p] < 0
          /\ \A p \in 1..(k - 1) : e.subs[p] < e.subs[p + 1]
          /\ \A p \in (k + 1)..(n - 1) : e.subs[p] > e.subs[p + 1]
          /\ \A p \in 1..k, q \in (k + 1)..n :
               e.subs[p] = e.subs[q] => Contains(e.subs, e.subs[p] + 1)

X0X1X0inv == Element(<<0, 1, 0>>, <<1, 1, -1>>)

X0invX1X0 == Element(<<0, 1, 0>>, <<-1, 1, 1>>)

\* C1: for every input word, normal_form returns the identity sentinel
\* ([0],[0]) or a well-formed normal form.
C1_WellFormedNormalForm ==
  nf.pc = "done" => (Result(nf) = Identity \/ WellFormed(Result(nf)))

\* C2: normal_form always terminates: from every input word the call reaches
\* its return, through the cursor loop and the outer loop over elem whose bound
\* grows as subscripts are incremented.
C2_Terminates == <>(nf.pc = "done")

\* A finished call whose result carries a subscript larger than any subscript
\* of the input: the bound of the outer loop grew and the loops still ended.
C2_Witness ==
  /\ nf.pc = "done"
  /\ \E k \in 1..Len(nf.new_subs) : nf.new_subs[k] > MaxSub

\* C3: idempotence: normal_form applied to a result of normal_form returns the
\* same pair sequence.
C3_Idempotent == nf.pc = "done" => NormalForm(Result(nf)) = Result(nf)

\* C4: canonicity: inside every context, x_i^-1 x_j x_i and x_{j+1} (i < j)
\* have identical normal forms.
C4_Canonicity ==
  pc = "related" => (left.subs = right.subs /\ left.exps = right.exps)

\* C5 as stated: x_0 x_1 x_0^-1 (subs [0,1,0], exps [1,1,-1]) normalizes to
\* the single generator x_2.
C5_ReducesToX2 ==
  (self = X0X1X0inv /\ nf.pc = "done") => Result(nf) = Element(<<2>>, <<1>>)

\* C5 as amended: x_0 x_1 x_0^-1 is already a normal form and normal_form
\* returns it unchanged; the word of the defining relation, x_0^-1 x_1 x_0
\* (subs [0,1,0], exps [-1,1,1]), is the one that normalizes to x_2.
C5_AlreadyNormal ==
  /\ (self = X0X1X0inv /\ nf.pc = "done") => Result(nf) = X0X1X0inv
  /\ (self = X0invX1X0 /\ nf.pc = "done") => Result(nf) = Element(<<2>>, <<1>>)

C5_Witness == self = X0X1X0inv /\ nf.pc = "done" /\ Result(nf) = self

\* C6: inverse law: e * e.inverse() is the identity sentinel ([0],[0]).
C6_InverseLaw == pc = "end" => prod = Identity

\* The product came out as the identity for an element whose inverse has
\* several pairs.
C6_Witness == pc = "end" /\ Len(inv.subs) >= 2 /\ prod = Identity

\* C7: associativity: (a*b)*c equals a*(b*c) under __eq__.
C7_Associative == pc = "associated" => Eq(left, right)

\* C8: length symmetry: len(e) equals len(e.inverse()).
C8_LengthSymmetry ==
  pc = "end" => (ln.pc = "done" /\ invlen.pc = "done" /\ ln.value = invlen.value)

\* C9: the top and the bottom forest hold the same number of leaves after
\* every generator-processing step of forest_diagram and in the returned
\* diagram, and the final padding step never runs (it would raise).
C9_EqualLeafCounts ==
  /\ fd.pc # "none" => LeafCount(fd.top_forest) = LeafCount(fd.bot_forest)
  /\ fd.pc = "done" => PyCount(fd.ret[1], Leaf) = PyCount(fd.ret[3], Leaf)
  /\ fd.pc # "raised"

\* A returned diagram with carets in both forests.
C9_Witness ==
  /\ fd.pc = "done"
  /\ PyCount(fd.ret[1], <<"(">>) > 0
  /\ PyCount(fd.ret[3], <<"(">>) > 0
  /\ PyCount(fd.ret[1], Leaf) = PyCount(fd.ret[3], Leaf)

\* C10: len(e) is 0 exactly when e normalizes to the identity sentinel, every
\* other element has length at least 1, and the generator x_0 has length 1.
C10_ZeroIffIdentity ==
  (pc = "len" /\ ln.pc \in {"done", "raised"}) =>
    /\ ln.pc = "done"
    /\ ln.value = 0 <=> NormalForm(self) = Identity
    /\ NormalForm(self) # Identity => ln.value >= 1
    /\ self = Element(<<0>>, <<1>>) => ln.value = 1

\* A word of several generators that reduces to the identity, with length 0.
C10_Witness ==
  /\ ln.pc = "done" /\ ln.value = 0
  /\ Len(ExpandElements(self.subs, self.exps)) >= 2
  /\ fd.pc = "done"

Labels == {"L", "N", "R", "I"}

LabelsOnly(labels) == \A k \in 1..Len(labels) : labels[k] \in Labels

\* C11: the labeling error is unreachable: every pass of either labeling loop
\* appends exactly one label from {L, N, R, I}, so each forest gets one label
\* per gap (leaf count minus one), the two label sequences have equal length,
\* and neither len(e) nor len(e.inverse()) raises.
C11_LabelingNeverFails ==
  /\ ln.pc # "raised"
  /\ invlen.pc # "raised"
  /\ ln.pc = "top" =>
       /\ Len(ln.top_labels) = ln.leaf
       /\ LabelsOnly(ln.top_labels)
  /\ ln.pc = "bot" =>
       /\ Len(ln.top_labels) = Len(LeafIndices(fd.ret[1])) - 1
       /\ Len(ln.bot_labels) = ln.leaf
       /\ LabelsOnly(ln.top_labels) /\ LabelsOnly(ln.bot_labels)
  /\ (ln.pc = "done" /\ fd.pc = "done") =>
       /\ Len(ln.top_labels) = Len(LeafIndices(fd.ret[1])) - 1
       /\ Len(ln.bot_labels) = Len(LeafIndices(fd.ret[3])) - 1
       /\ Len(ln.top_labels) = Len(ln.bot_labels)
       /\ LabelsOnly(ln.top_labels) /\ LabelsOnly(ln.bot_labels)

\* A finished len(e) that passed the consistency check with an interior gap
\* and a caret-adjacent gap among at least three labeled gaps of the top forest.
C11_Witness ==
  /\ ln.pc = "done" /\ fd.pc = "done"
  /\ Len(ln.top_labels) >= 3
  /\ Len(ln.top_labels) = Len(ln.bot_labels)
  /\ Contains(ln.top_labels, "I")
  /\ Contains(ln.top_labels, "N")

====
